---- MODULE Spec2Model ----
(***************************************************************************)
(* Model of label_generator.py (ShelfLabelGenerator).                      *)
(*                                                                         *)
(* A string is a sequence of one-character strings.  Three specifications  *)
(* share the module:                                                       *)
(*   Spec       draw_multiline_text, one action per loop iteration         *)
(*   SpecGen    generate_labels_from_excel, one action per row             *)
(*   SpecClean  clean_filename applied to every bounded product name       *)
(***************************************************************************)
EXTENDS Integers, Sequences, FiniteSets, TLC

VARIABLES
    \* ---- draw_multiline_text(draw, text, x, y, font, fill, max_width, max_height)
    pc,             \* position in draw_multiline_text
    text, x, y, max_width,
    words,          \* text.split()
    i,              \* number of words consumed by the first loop
    current_line,   \* pending buffer, a sequence of words
    lines,          \* committed lines, each a string
    total_height, line_heights, current_y,
    drawn,          \* the draw.text calls made so far: [text, x, y]
    ret,            \* the returned total height
    \* ---- generate_labels_from_excel(excel_path)
    gpc, nrows, index, success_count, fail_count,
    files,          \* names of the files present in output_dir
    written,        \* names of the files label.save wrote during the call
    saved_rows,     \* rows whose label.save returned normally
    log,            \* one entry per row, what the row's processing logged
    \* ---- clean_filename(filename)
    cpc, filename, cleaned

layoutVars == <<pc, text, x, y, max_width, words, i, current_line, lines,
                total_height, line_heights, current_y, drawn, ret>>
genVars    == <<gpc, nrows, index, success_count, fail_count, files, written,
                saved_rows, log>>
cleanVars  == <<cpc, filename, cleaned>>
vars       == <<layoutVars, genVars, cleanVars>>

----------------------------------------------------------------------------
(* Bounds *)

MaxTextLen == 7     \* characters in the text given to draw_multiline_text
MaxRows    == 3     \* rows of the spreadsheet
MaxNameLen == 3     \* characters in the name given to clean_filename

(* Program constants *)

LineSpacing     == 24    \* line_spacing
MaxWordsPerLine == 3     \* len(current_line) > 3

----------------------------------------------------------------------------
(* Strings *)

\* All strings over alphabet A of length at most n.
StringsUpTo(A, n) == UNION {[1..m -> A] : m \in 0..n}

RECURSIVE Reverse(_)
Reverse(s) == IF s = <<>> THEN <<>> ELSE Append(Reverse(Tail(s)), Head(s))

\* Characters str.split() and str.strip() treat as whitespace (str.isspace).
\* AsciiWhitespace: space, tab, newline, carriage return, form feed and
\* U+000B (vertical tab), U+001C, U+001D, U+001E, U+001F.
AsciiWhitespace == {" ", "\t", "\n", "\r", "\f", "", "", "", "", ""}

\* A character outside ASCII is written as the name of its code point, a
\* string that stands for that one character: "U+00E9" is the letter e with
\* an acute accent, and is no whitespace.

\* U+0085 (next line) and U+00A0 (no-break space).
Latin1Whitespace == {"U+0085", "U+00A0"}

\* The Unicode spaces beyond Latin-1.
UnicodeWhitespace ==
    { "U+1680", "U+2000", "U+2001", "U+2002", "U+2003", "U+2004",
      "U+2005", "U+2006", "U+2007", "U+2008", "U+2009", "U+200A",
      "U+2028", "U+2029", "U+202F", "U+205F", "U+3000" }

IsWhitespace(c) == c \in AsciiWhitespace \cup Latin1Whitespace \cup UnicodeWhitespace

\* text.split(): maximal runs of non-whitespace characters, in order.
RECURSIVE SplitFrom(_, _, _)
SplitFrom(s, acc, cur) ==
    IF s = <<>>
    THEN IF cur = <<>> THEN acc ELSE Append(acc, cur)
    ELSE IF IsWhitespace(Head(s))
         THEN SplitFrom(Tail(s), IF cur = <<>> THEN acc ELSE Append(acc, cur), <<>>)
         ELSE SplitFrom(Tail(s), acc, Append(cur, Head(s)))

Split(s) == SplitFrom(s, <<>>, <<>>)

\* ' '.join(ws)
RECURSIVE Join(_)
Join(ws) ==
    IF ws = <<>> THEN <<>>
    ELSE IF Len(ws) = 1 THEN ws[1]
    ELSE ws[1] \o <<" ">> \o Join(Tail(ws))

----------------------------------------------------------------------------
(* The font and the text shaper, the external collaborators of the layout. *)

\* The letters of the model's font: a narrow one and a wide one.
Letters == {"i", "W"}

\* prepare_persian_text: reshape, then reorder a right-to-left run for
\* display, which puts its characters in reverse (visual) order.
prepare_persian_text(s) == Reverse(s)

\* Horizontal advance of one glyph, in pixels.
Advance(c) == CASE c = "i" -> 9
                [] c = "W" -> 40
                [] OTHER   -> 10

\* Height of one glyph's bounding box, in pixels.
GlyphHeight(c) == CASE c = "i" -> 50
                    [] c = "W" -> 40
                    [] OTHER   -> 0

\* draw.textlength(s, font): the sum of the glyph advances.
RECURSIVE textlength(_)
textlength(s) == IF s = <<>> THEN 0 ELSE Advance(Head(s)) + textlength(Tail(s))

\* bbox[3] - bbox[1] of draw.textbbox((0, 0), s, font): the tallest glyph.
RECURSIVE textbbox_height(_)
textbbox_height(s) ==
    IF s = <<>> THEN 0
    ELSE LET h == GlyphHeight(Head(s))
             r == textbbox_height(Tail(s))
         IN  IF h > r THEN h ELSE r

----------------------------------------------------------------------------
(* draw_multiline_text *)

\* The calls the model makes: anchors and widths.  create_label calls with
\* x = 502 + 35 = 537, y = (508 - 40) // 2 = 234 and
\* max_width = 992 - 502 - 35 - 71 - 10 = 374; the narrower widths are calls
\* in which the model's short texts overflow.
Xs        == {100, 537}
Ys        == {234}
MaxWidths == {30, 200, 374}

\* Whitespace other than the space that the model's texts are written with:
\* tab, U+000B, U+00A0 and U+2003.
TextWhitespace == {"\t", "", "U+00A0", "U+2003"}

\* The texts: letters and spaces up to the bound, and short texts whose
\* words are separated by other whitespace.
Texts ==
    StringsUpTo(Letters \cup {" "}, MaxTextLen)
        \cup StringsUpTo(Letters \cup TextWhitespace, 3)

\* Width of the pending buffer as the loop measures it.
test_width(cur) == textlength(prepare_persian_text(Join(cur)))

\* The loop's test, with width the measured width of the pending buffer.
BreakNoCap(cur, width, mw) == width > mw
Overflows(cur, width, mw) == width > mw \/ Len(cur) > MaxWordsPerLine

\* The buffer committed on a break: the just-appended word is popped when
\* the buffer holds more than one word.
CommitNoPop(cur) == cur
CommittedLine(cur) == IF Len(cur) > 1 THEN SubSeq(cur, 1, Len(cur) - 1) ELSE cur

\* The buffer the loop carries on with after a break.
NextBufferEmpty(word) == <<>>
NextBuffer(word) == <<word>>

\* The block height once every line's height + spacing has been added.
BlockHeightKeepLast(acc) == acc
BlockHeight(acc) == acc - LineSpacing

\* Horizontal origin of a line of the given measured width.
XLeft(ax, mw, width) == ax
x_centered(ax, mw, width) == ax + (mw - width) \div 2

InitLayout ==
    /\ pc = "start"
    /\ text \in Texts
    /\ x \in Xs
    /\ y \in Ys
    /\ max_width \in MaxWidths
    /\ words = <<>>
    /\ i = 0
    /\ current_line = <<>>
    /\ lines = <<>>
    /\ total_height = 0
    /\ line_heights = <<>>
    /\ current_y = 0
    /\ drawn = <<>>
    /\ ret = 0

\* words = text.split(); lines = []; current_line = []
SplitText ==
    /\ pc = "start"
    /\ words' = Split(text)
    /\ lines' = <<>>
    /\ current_line' = <<>>
    /\ i' = 0
    /\ pc' = "wrap"
    /\ UNCHANGED <<text, x, y, max_width, total_height, line_heights, current_y,
                   drawn, ret>>

\* One iteration of `for word in words`.
WrapWord ==
    /\ pc = "wrap"
    /\ i < Len(words)
    /\ LET word  == words[i + 1]
           cur   == Append(current_line, word)
           width == test_width(cur)
       IN  IF Overflows(cur, width, max_width)
           THEN /\ lines' = Append(lines, Join(CommittedLine(cur)))
                /\ current_line' = NextBuffer(word)
           ELSE /\ lines' = lines
                /\ current_line' = cur
    /\ i' = i + 1
    /\ UNCHANGED <<pc, text, x, y, max_width, words, total_height, line_heights,
                   current_y, drawn, ret>>

\* if current_line: lines.append(' '.join(current_line)), then the
\* initialisation of the measuring loop.
CommitRest ==
    /\ pc = "wrap"
    /\ i = Len(words)
    /\ lines' = IF current_line # <<>> THEN Append(lines, Join(current_line)) ELSE lines
    /\ total_height' = 0
    /\ line_heights' = <<>>
    /\ pc' = "measure"
    /\ UNCHANGED <<text, x, y, max_width, words, i, current_line, current_y, drawn, ret>>

\* One iteration of the first `for line in lines`.
MeasureLine ==
    /\ pc = "measure"
    /\ Len(line_heights) < Len(lines)
    /\ LET line        == lines[Len(line_heights) + 1]
           line_height == textbbox_height(prepare_persian_text(line))
       IN  /\ line_heights' = Append(line_heights, line_height)
           /\ total_height' = total_height + line_height + LineSpacing
    /\ UNCHANGED <<pc, text, x, y, max_width, words, i, current_line, lines,
                   current_y, drawn, ret>>

\* total_height -= line_spacing; current_y = y - total_height // 2
FinishHeight ==
    /\ pc = "measure"
    /\ Len(line_heights) = Len(lines)
    /\ total_height' = BlockHeight(total_height)
    /\ current_y' = y - (total_height' \div 2)
    /\ pc' = "draw"
    /\ UNCHANGED <<text, x, y, max_width, words, i, current_line, lines,
                   line_heights, drawn, ret>>

\* One iteration of `for i, line in enumerate(lines)`.
DrawLine ==
    /\ pc = "draw"
    /\ Len(drawn) < Len(lines)
    /\ LET k             == Len(drawn) + 1
           prepared_line == prepare_persian_text(lines[k])
           width         == textlength(prepared_line)
       IN  /\ drawn' = Append(drawn, [text |-> prepared_line,
                                      x    |-> x_centered(x, max_width, width),
                                      y    |-> current_y])
           /\ current_y' = current_y + line_heights[k] + LineSpacing
    /\ UNCHANGED <<pc, text, x, y, max_width, words, i, current_line, lines,
                   total_height, line_heights, ret>>

\* return total_height
Return ==
    /\ pc = "draw"
    /\ Len(drawn) = Len(lines)
    /\ ret' = total_height
    /\ pc' = "done"
    /\ UNCHANGED <<text, x, y, max_width, words, i, current_line, lines,
                   total_height, line_heights, current_y, drawn>>

----------------------------------------------------------------------------
(* clean_filename *)

\* The characters re.sub(r'[<>:"/\\|?*\t\n\r]', '', filename) removes.
InvalidChars == {"<", ">", ":", "\"", "/", "\\", "|", "?", "*", "\t", "\n", "\r"}

RemoveInvalid(s) == SelectSeq(s, LAMBDA c : c \notin InvalidChars)

\* filename.strip(): leading and trailing whitespace removed.
RECURSIVE LStrip(_)
LStrip(s) == IF s # <<>> /\ IsWhitespace(Head(s)) THEN LStrip(Tail(s)) ELSE s

Strip(s) == Reverse(LStrip(Reverse(LStrip(s))))

\* .replace(' ', '_')
ReplaceSpaces(s) == [k \in 1..Len(s) |-> IF s[k] = " " THEN "_" ELSE s[k]]

clean_filename_no_replace(name) == Strip(RemoveInvalid(name))
clean_filename(name) == ReplaceSpaces(Strip(RemoveInvalid(name)))

\* The characters of the names given to clean_filename: every character the
\* pattern removes, the space, other whitespace characters (form feed,
\* U+000B, U+00A0, U+2003), a letter and the underscore.
FileChars == InvalidChars \cup {" ", "\f", "", "U+00A0", "U+2003", "a", "_"}

InitClean ==
    /\ cpc = "start"
    /\ filename \in StringsUpTo(FileChars, MaxNameLen)
    /\ cleaned = <<>>

CleanFilename ==
    /\ cpc = "start"
    /\ cleaned' = clean_filename(filename)
    /\ cpc' = "done"
    /\ UNCHANGED filename

----------------------------------------------------------------------------
(* generate_labels_from_excel *)

\* The product-name cells of the rows the model reads.
ProductNames ==
    { <<"a">>, <<"a", "/">>, <<"a", " ", "b">>, <<"a", "_", "b">>, <<" ", "b">> }

Digits == {"0", "1", "2", "3", "4", "5", "6", "7", "8", "9"}

DigitValue(c) ==
    CASE c = "0" -> 0 [] c = "1" -> 1 [] c = "2" -> 2 [] c = "3" -> 3 [] c = "4" -> 4
      [] c = "5" -> 5 [] c = "6" -> 6 [] c = "7" -> 7 [] c = "8" -> 8 [] c = "9" -> 9

\* The decimal digits of 2^1024 - 2^970, the least number float() rounds to
\* inf: halfway between the largest finite double and 2^1024.
FloatOverflowThreshold ==
    << "1", "7", "9", "7", "6", "9", "3", "1", "3", "4", "8", "6",
       "2", "3", "1", "5", "8", "0", "7", "9", "3", "7", "2", "8",
       "9", "7", "1", "4", "0", "5", "3", "0", "3", "4", "1", "5",
       "0", "7", "9", "9", "3", "4", "1", "3", "2", "7", "1", "0",
       "0", "3", "7", "8", "2", "6", "9", "3", "6", "1", "7", "3",
       "7", "7", "8", "9", "8", "0", "4", "4", "4", "9", "6", "8",
       "2", "9", "2", "7", "6", "4", "7", "5", "0", "9", "4", "6",
       "6", "4", "9", "0", "1", "7", "9", "7", "7", "5", "8", "7",
       "2", "0", "7", "0", "9", "6", "3", "3", "0", "2", "8", "6",
       "4", "1", "6", "6", "9", "2", "8", "8", "7", "9", "1", "0",
       "9", "4", "6", "5", "5", "5", "5", "4", "7", "8", "5", "1",
       "9", "4", "0", "4", "0", "2", "6", "3", "0", "6", "5", "7",
       "4", "8", "8", "6", "7", "1", "5", "0", "5", "8", "2", "0",
       "6", "8", "1", "9", "0", "8", "9", "0", "2", "0", "0", "0",
       "7", "0", "8", "3", "8", "3", "6", "7", "6", "2", "7", "3",
       "8", "5", "4", "8", "4", "5", "8", "1", "7", "7", "1", "1",
       "5", "3", "1", "7", "6", "4", "4", "7", "5", "7", "3", "0",
       "2", "7", "0", "0", "6", "9", "8", "5", "5", "5", "7", "1",
       "3", "6", "6", "9", "5", "9", "6", "2", "2", "8", "4", "2",
       "9", "1", "4", "8", "1", "9", "8", "6", "0", "8", "3", "4",
       "9", "3", "6", "4", "7", "5", "2", "9", "2", "7", "1", "9",
       "0", "7", "4", "1", "6", "8", "4", "4", "4", "3", "6", "5",
       "5", "1", "0", "7", "0", "4", "3", "4", "2", "7", "1", "1",
       "5", "5", "9", "6", "9", "9", "5", "0", "8", "0", "9", "3",
       "0", "4", "2", "8", "8", "0", "1", "7", "7", "9", "0", "4",
       "1", "7", "4", "4", "9", "7", "7", "9", "2" >>

\* The price cells, as str(row[price]) gives them: cells that parse, cells
\* float() rejects, and cells of 309 and 400 digits around the largest double.
PriceCells ==
    { <<"1">>, <<"1", ".", "5">>, <<"1", ",", "0">>, <<"1", "x">>,
      <<>>, <<"x">>, <<".">>, <<"1", ".", ".">>,
      [k \in 1..400 |-> "9"],
      [k \in 1..309 |-> IF k = 1 THEN "1" ELSE "0"],
      FloatOverflowThreshold }

\* re.sub(r'[^0-9.]', '', cell)
StripNonNumeric(s) == SelectSeq(s, LAMBDA c : c \in Digits \cup {"."})

\* Whether float(s) returns for a string s of digits and dots: it holds a
\* digit and at most one dot; otherwise float raises ValueError.
FloatParses(s) ==
    /\ Len(SelectSeq(s, LAMBDA c : c \in Digits)) >= 1
    /\ Len(SelectSeq(s, LAMBDA c : c = ".")) <= 1

\* The least index of s whose character is in set C, Len(s) + 1 if none.
FirstIn(s, C) ==
    LET at == {k \in 1..Len(s) : s[k] \in C}
    IN  IF at = {} THEN Len(s) + 1 ELSE CHOOSE k \in at : \A j \in at : k <= j

\* The digits of s before its first dot.
IntegerPart(s) == SubSeq(s, 1, FirstIn(s, {"."}) - 1)

StripLeadingZeros(s) == SubSeq(s, FirstIn(s, Digits \ {"0"}), Len(s))

\* a >= b for digit strings of the same length.
DigitsGE(a, b) ==
    LET diff == {k \in 1..Len(a) : a[k] # b[k]}
    IN  \/ diff = {}
        \/ LET k == CHOOSE d \in diff : \A j \in diff : d <= j
            IN  DigitValue(a[k]) > DigitValue(b[k])

\* Whether float(s) is inf for a string s that parses: its integer part is
\* at least 2^1024 - 2^970.  create_label's int(price) then raises
\* OverflowError, which create_label catches, returning None.
FloatIsInf(s) ==
    LET ip == StripLeadingZeros(IntegerPart(s))
    IN  \/ Len(ip) > Len(FloatOverflowThreshold)
        \/ Len(ip) = Len(FloatOverflowThreshold) /\ DigitsGE(ip, FloatOverflowThreshold)

\* What the collaborators do for a row: create_label's drawing raises (it
\* then logs and returns None), label.save raises before or after it has
\* created the file, or neither raises.
Environments == {"ok", "draw_raises", "save_raises", "save_raises_partial"}

\* price = float(re.sub(r'[^0-9.]', '', cell)): float raises ValueError, or
\* gives inf, or gives a finite number.
ParsePrice(cell) ==
    LET s == StripNonNumeric(cell)
    IN  IF ~FloatParses(s) THEN "ValueError"
        ELSE IF FloatIsInf(s) THEN "inf"
        ELSE "finite"

\* The prices of the model's price cells.
Prices == [cell \in PriceCells |-> ParsePrice(cell)]

\* How the body of the row loop ends, for a price as ParsePrice gives it.
RowOutcome(price, env) ==
    IF price = "ValueError" THEN "price_error"
    ELSE IF price = "inf" \/ env = "draw_raises" THEN "no_label"
    ELSE IF env \in {"save_raises", "save_raises_partial"} THEN "save_error"
    ELSE "saved"

\* success_count after a row: incremented once label.save has returned.
SuccessAfter(count, outcome) == IF outcome = "saved" THEN count + 1 ELSE count

\* fail_count after a row: incremented in the else branch (no label) and in
\* the except handler (price or save error).
FailAfterNoElse(count, outcome) ==
    IF outcome \in {"price_error", "save_error"} THEN count + 1 ELSE count
FailAfter(count, outcome) ==
    IF outcome \in {"price_error", "save_error", "no_label"} THEN count + 1 ELSE count

\* f"{clean_filename(product_name)}.jpg"
LabelFile(product_name) == clean_filename(product_name) \o <<".", "j", "p", "g">>

\* The files output_dir can hold when the call starts: setup_directories
\* creates the directory if it is missing and never empties it, so labels of
\* an earlier run and other files may be there.
ExistingFiles == SUBSET {LabelFile(<<"a">>), <<"o", "l", "d", ".", "j", "p", "g">>}

InitGen ==
    /\ gpc = "start"
    /\ nrows \in 0..MaxRows
    /\ index = 0
    /\ success_count = 0
    /\ fail_count = 0
    /\ files \in ExistingFiles
    /\ written = {}
    /\ saved_rows = {}
    /\ log = <<>>

\* success_count = fail_count = 0; df = pd.read_excel(excel_path)
StartGen ==
    /\ gpc = "start"
    /\ success_count' = 0
    /\ fail_count' = 0
    /\ index' = 0
    /\ gpc' = "rows"
    /\ UNCHANGED <<nrows, files, written, saved_rows, log>>

\* One iteration of `for index, row in df.iterrows()`.
ProcessRow ==
    /\ gpc = "rows"
    /\ index < nrows
    /\ \E product_name \in ProductNames, cell \in PriceCells, env \in Environments :
          LET outcome == RowOutcome(Prices[cell], env)
              wrote   == \/ outcome = "saved"
                         \/ outcome = "save_error" /\ env = "save_raises_partial"
          IN  /\ success_count' = SuccessAfter(success_count, outcome)
              /\ fail_count' = FailAfter(fail_count, outcome)
              /\ files' = IF wrote THEN files \cup {LabelFile(product_name)} ELSE files
              /\ written' = IF wrote THEN written \cup {LabelFile(product_name)}
                            ELSE written
              /\ saved_rows' = IF outcome = "saved"
                               THEN saved_rows \cup {index + 1} ELSE saved_rows
              /\ log' = Append(log, outcome)
    /\ index' = index + 1
    /\ UNCHANGED <<gpc, nrows>>

\* return success_count, fail_count
ReturnGen ==
    /\ gpc = "rows"
    /\ index = nrows
    /\ gpc' = "returned"
    /\ UNCHANGED <<nrows, index, success_count, fail_count, files, written,
                   saved_rows, log>>

----------------------------------------------------------------------------
(* Specifications *)

IdleLayout ==
    /\ pc = "idle" /\ text = <<>> /\ x = 0 /\ y = 0 /\ max_width = 0
    /\ words = <<>> /\ i = 0 /\ current_line = <<>> /\ lines = <<>>
    /\ total_height = 0 /\ line_heights = <<>> /\ current_y = 0
    /\ drawn = <<>> /\ ret = 0

IdleGen ==
    /\ gpc = "idle" /\ nrows = 0 /\ index = 0 /\ success_count = 0
    /\ fail_count = 0 /\ files = {} /\ written = {} /\ saved_rows = {} /\ log = <<>>

IdleClean ==
    /\ cpc = "idle" /\ filename = <<>> /\ cleaned = <<>>

Init == InitLayout /\ IdleGen /\ IdleClean

Next ==
    \/ SplitText /\ UNCHANGED <<genVars, cleanVars>>
    \/ WrapWord /\ UNCHANGED <<genVars, cleanVars>>
    \/ CommitRest /\ UNCHANGED <<genVars, cleanVars>>
    \/ MeasureLine /\ UNCHANGED <<genVars, cleanVars>>
    \/ FinishHeight /\ UNCHANGED <<genVars, cleanVars>>
    \/ DrawLine /\ UNCHANGED <<genVars, cleanVars>>
    \/ Return /\ UNCHANGED <<genVars, cleanVars>>

Spec == Init /\ [][Next]_vars

InitG == IdleLayout /\ InitGen /\ IdleClean

NextGen ==
    \/ StartGen /\ UNCHANGED <<layoutVars, cleanVars>>
    \/ ProcessRow /\ UNCHANGED <<layoutVars, cleanVars>>
    \/ ReturnGen /\ UNCHANGED <<layoutVars, cleanVars>>

SpecGen == InitG /\ [][NextGen]_vars

InitC == IdleLayout /\ IdleGen /\ InitClean

NextClean == CleanFilename /\ UNCHANGED <<layoutVars, genVars>>

SpecClean == InitC /\ [][NextClean]_vars

----------------------------------------------------------------------------
(* Properties of draw_multiline_text, checked under Spec *)

\* The words of a sequence of lines, in line order.
RECURSIVE WordsOfLines(_)
WordsOfLines(ls) ==
    IF ls = <<>> THEN <<>> ELSE Split(Head(ls)) \o WordsOfLines(Tail(ls))

\* Width and height of a committed line as the routine measures them.
LineWidth(line)  == textlength(prepare_persian_text(line))
LineHeight(line) == textbbox_height(prepare_persian_text(line))

RECURSIVE SumHeights(_)
SumHeights(ls) == IF ls = <<>> THEN 0 ELSE LineHeight(Head(ls)) + SumHeights(Tail(ls))

\* No word of the text alone measures wider than max_width.
NoWordOverflows == \A w \in 1..Len(Split(text)) : LineWidth(Split(text)[w]) <= max_width

LoopDone == pc \in {"measure", "draw", "done"}

\* C1: when no single word alone is wider than max_width, the words of the
\* committed lines, concatenated in line order, are the whitespace-split
\* words of the text: during the loop the committed lines followed by the
\* pending buffer are the words consumed so far, and after it the committed
\* lines hold every word once, in order.
C1_WordsPreserved ==
    NoWordOverflows =>
        /\ pc = "wrap" =>
              WordsOfLines(lines) \o current_line = SubSeq(Split(text), 1, i)
        /\ LoopDone => WordsOfLines(lines) = Split(text)

\* C1 witness: a finished call that broke a line on width, with several
\* words on a line and no word overflowing alone.
C1_Witness ==
    /\ pc = "done"
    /\ NoWordOverflows
    /\ max_width = 30
    /\ Len(lines) >= 2
    /\ \E k \in 1..Len(lines) : Len(Split(lines[k])) >= 2

\* C2: no committed line, the final one included, holds more than
\* MaxWordsPerLine (3) words.
C2_WordCap ==
    \A k \in 1..Len(lines) : Len(Split(lines[k])) <= MaxWordsPerLine

\* C2 witness: a text of more than three words, all of which would fit the
\* width together, finished with a full three-word line and a further line.
C2_Witness ==
    /\ pc = "done"
    /\ Len(Split(text)) > MaxWordsPerLine
    /\ LineWidth(Join(Split(text))) <= max_width
    /\ Len(lines) = 2
    /\ Len(Split(lines[1])) = MaxWordsPerLine

\* C3 (as claimed): a text without words commits no line and returns a
\* total height of zero.
C3_EmptyTextZeroHeight ==
    (pc = "done" /\ Split(text) = <<>>) => (lines = <<>> /\ ret = 0)

\* C4: with at least one committed line, the returned height is the sum of
\* the lines' heights plus the spacing between consecutive lines.
C4_TotalHeight ==
    (pc = "done" /\ Len(lines) >= 1) =>
        ret = SumHeights(lines) + LineSpacing * (Len(lines) - 1)

\* C4 witness: a finished call with lines of different heights.
C4_Witness ==
    /\ pc = "done"
    /\ Len(lines) >= 2
    /\ LineHeight(lines[1]) # LineHeight(lines[2])

\* C8: every drawn line is centred within max_width from the anchor x: its
\* left margin is the floor of half the free width, so the right margin is
\* the left one or one pixel more; a single word that fits gives one line;
\* and at x = 100, max_width = 200 a 40px word is drawn at 180.
C8_Centered ==
    /\ \A k \in 1..Len(drawn) :
          LET left  == drawn[k].x - x
              right == (x + max_width) - (drawn[k].x + LineWidth(lines[k]))
          IN  /\ drawn[k].text = prepare_persian_text(lines[k])
              /\ right - left \in {0, 1}
    /\ (pc = "done" /\ Len(Split(text)) = 1 /\ NoWordOverflows) => Len(drawn) = 1
    /\ (pc = "done" /\ x = 100 /\ max_width = 200 /\ Len(Split(text)) = 1
          /\ LineWidth(Split(text)[1]) = 40) => drawn[1].x = 180

\* C8 witness: the single 40px word, drawn as one line at origin 180.
C8_Witness ==
    /\ pc = "done"
    /\ x = 100 /\ max_width = 200
    /\ Split(text) = << <<"W">> >>
    /\ drawn = << [text |-> <<"W">>, x |-> 180, y |-> current_y - 40 - LineSpacing] >>

\* C9 (as claimed): when the buffer holds exactly one word after the append
\* and that word alone is wider than max_width, the word is committed as
\* its own line and the next buffer is empty.
C9_OverflowWordLeavesEmptyBuffer ==
    [][ ( /\ pc = "wrap" /\ i < Len(words) /\ i' = i + 1
          /\ current_line = <<>>
          /\ test_width(<<words[i + 1]>>) > max_width )
        => ( /\ lines' = Append(lines, words[i + 1])
             /\ current_line' = <<>> ) ]_vars

\* C10: a committed line of two or more words is never wider than
\* max_width; only a one-word line can be.
C10_MultiWordLinesFit ==
    \A k \in 1..Len(lines) :
        Len(Split(lines[k])) >= 2 => LineWidth(lines[k]) <= max_width

\* C10 witness: a finished call that committed a line of several words after
\* a width break, next to a one-word line wider than max_width.
C10_Witness ==
    /\ pc = "done"
    /\ LineWidth(Join(Split(text))) > max_width
    /\ \E k \in 1..Len(lines) : Len(Split(lines[k])) >= 2
    /\ \E k \in 1..Len(lines) :
          Len(Split(lines[k])) = 1 /\ LineWidth(lines[k]) > max_width

----------------------------------------------------------------------------
(* Properties of generate_labels_from_excel, checked under SpecGen *)

\* Number of entries of a log equal to a given outcome.
CountOf(lg, outcome) == Len(SelectSeq(lg, LAMBDA o : o = outcome))

\* C5: failures are isolated per row: every processed row is counted once,
\* as a success exactly when its image was saved and as a failure otherwise;
\* the loop goes on after a failure, so on return every row was processed
\* and success_count + fail_count is the number of rows.
C5_RowFailuresIsolated ==
    /\ gpc \in {"rows", "returned"} =>
          /\ Len(log) = index
          /\ success_count + fail_count = index
          /\ success_count = Cardinality(saved_rows)
          /\ success_count = CountOf(log, "saved")
          /\ fail_count = index - CountOf(log, "saved")
    /\ gpc = "returned" =>
          /\ index = nrows
          /\ success_count + fail_count = nrows

\* C5 witness: a returned run of three rows in which two rows failed in
\* different ways, one of them with no label, and a later row was saved.
C5_Witness ==
    /\ gpc = "returned"
    /\ nrows = 3
    /\ log[1] # "saved" /\ log[2] # "saved" /\ log[1] # log[2]
    /\ "no_label" \in {log[1], log[2]}
    /\ log[3] = "saved"
    /\ success_count = 1 /\ fail_count = 2

\* C6 (as claimed): when every row was processed successfully, the call
\* has produced one image file per row: the distinct files it wrote into the
\* output directory are as many as the rows, none overwritten by another.
C6_OneFilePerRow ==
    (gpc = "returned" /\ CountOf(log, "saved") = nrows) =>
        /\ Cardinality(written) = nrows
        /\ written \subseteq files

----------------------------------------------------------------------------
(* Properties of clean_filename, checked under SpecClean *)

\* C7: the cleaned name holds no space and none of the characters
\* < > : " / \ | ? * tab, newline, carriage return.
C7_CleanNameHasNoSpaceOrInvalidChar ==
    cpc = "done" =>
        \A k \in 1..Len(cleaned) : cleaned[k] \notin InvalidChars \cup {" "}

\* C7 witness: a name with an interior space left after the invalid
\* characters and the outer whitespace went, replaced by an underscore.
C7_Witness ==
    /\ cpc = "done"
    /\ \E k \in 1..Len(filename) : filename[k] = " "
    /\ \A k \in 1..Len(filename) : filename[k] # "_"
    /\ \E k \in 1..Len(cleaned) : cleaned[k] = "_"

====
